---- MODULE Spec2Model ----
(***************************************************************************)
(* A model of akarshmi/scrapipy: the fetcher with retry and backoff        *)
(* (scrape.py), the cleaner and chunker (scrape.py), the extractor         *)
(* (parse.py) and the scrape step of the form (main.py).                   *)
(*                                                                         *)
(* Text is modelled as a sequence of tokens.  A token is one character     *)
(* ("a", " ", "\n"), one tag ("<body>", "<script>", ...) or "PAD", a run   *)
(* of 200 blanks; TokenLen gives the number of characters of a token, so   *)
(* the length test of scrape_website is computed on real lengths.          *)
(***************************************************************************)
EXTENDS Integers, Sequences, FiniteSets, TLC

\* ------------------------------------------------------------------ bounds
\* scrape_website is called directly with max_retries in 0..MaxRetriesBound
MaxRetriesBound == 3
\* the chunker is driven with texts of up to MaxTextLen characters and chunk
\* sizes 1..MaxChunkLen, the extractor with the chunk lists of the texts of
\* up to MaxParseTextLen characters
MaxTextLen == 4
MaxChunkLen == 3
MaxParseTextLen == 3
MaxDocLen == 4

\* ------------------------------------------------------- program constants
DefaultMaxRetries == 3
MinHtmlLen == 200
BackoffBase == 2
TimeoutSleep == 2
DefaultMaxLength == 6000

\* ------------------------------------------------------------------- text
TokenLen(t) ==
    CASE t = "PAD" -> 200
      [] t = "<body>" -> 6
      [] t = "</body>" -> 7
      [] t = "<p>" -> 3
      [] t = "</p>" -> 4
      [] t = "<script>" -> 8
      [] t = "</script>" -> 9
      [] t = "<style>" -> 7
      [] t = "</style>" -> 8
      [] OTHER -> 1

RECURSIVE StrLen(_)
\* len(s) of a token sequence, in characters
StrLen(s) == IF s = <<>> THEN 0 ELSE TokenLen(Head(s)) + StrLen(Tail(s))

\* os.getenv / a function returning nothing: None is kept apart from ""
None == [isNone |-> TRUE, str |-> <<>>]
Str(s) == [isNone |-> FALSE, str |-> s]

\* "if x:" on an optional string
Truthy(v) == ~v.isNone /\ v.str # <<>>

\* ":" in auth
Contains(s, c) == \E i \in 1..Len(s) : s[i] = c

\* ------------------------------------------------------------- exceptions
NoExc == [cls |-> "None", sig |-> FALSE, msg |-> "none"]
Exc(c, s, m) == [cls |-> c, sig |-> s, msg |-> m]

\* selenium: class TimeoutException(WebDriverException); both, and ValueError,
\* derive from Exception
IsInstance(e, c) ==
    CASE c = "Exception" -> e.cls # "None"
      [] c = "WebDriverException" -> e.cls \in {"WebDriverException", "TimeoutException"}
      [] OTHER -> e.cls = c

\* what a call on the remote browser service can raise: sig says whether
\* str(e) contains "Wrong customer name"
RemoteErrors ==
    { Exc(c, s, "remote") : c \in {"WebDriverException", "TimeoutException", "Exception"},
                            s \in BOOLEAN }

\* what driver.page_source can return
Pages ==
    { <<>>,
      <<"<body>", "a", "</body>">>,
      <<"PAD">>,
      <<"PAD", "a">>,
      <<"<body>", "<p>", "a", "</p>", "<script>", "b", "</script>", "</body>", "PAD">> }

\* the values of the AUTH environment variable
AuthValues ==
    { None, Str(<<>>), Str(<<"u">>), Str(<<"u", ":", "p">>), Str(<<":">>) }

Urls == { <<>>, <<"h">> }

RECURSIVE Pow(_, _)
Pow(b, n) == IF n = 0 THEN 1 ELSE b * Pow(b, n - 1)

\* ---------------------------------------------------------------- cleaner
StartTags == {"<body>", "<p>", "<script>", "<style>"}
EndTags == {"</body>", "</p>", "</script>", "</style>"}
Whitespace == {" ", "\n", "PAD"}

TagName(t) ==
    CASE t \in {"<body>", "</body>"} -> "body"
      [] t \in {"<p>", "</p>"} -> "p"
      [] t \in {"<script>", "</script>"} -> "script"
      [] OTHER -> "style"

EndTag(n) ==
    CASE n = "body" -> "</body>"
      [] n = "p" -> "</p>"
      [] n = "script" -> "</script>"
      [] OTHER -> "</style>"

IsBlank(s) == \A i \in 1..Len(s) : s[i] \in Whitespace

\* BeautifulSoup(markup, "html.parser"): the tree builder's state.  stack: the
\* open elements; cur: the text collected since the last tag; texts: the text
\* nodes outside script and style, in document order; out: str() of the first
\* body element; body: the depth of that element (0 not seen, -1 closed).
Parser0 == [stack |-> <<>>, cur |-> <<>>, texts |-> <<>>, out |-> <<>>, body |-> 0]

InRaw(st) == st.stack # <<>> /\ st.stack[Len(st.stack)] \in {"script", "style"}

\* endData: the collected text becomes a text node; a node of blanks only
\* collapses to one newline or one space
EndData(st) ==
    IF st.cur = <<>> THEN st
    ELSE LET d == IF IsBlank(st.cur)
                  THEN (IF Contains(st.cur, "\n") THEN <<"\n">> ELSE <<" ">>)
                  ELSE st.cur
         IN [st EXCEPT !.cur = <<>>,
                       !.texts = IF InRaw(st) THEN @ ELSE Append(@, d),
                       !.out = IF st.body > 0 THEN @ \o d ELSE @]

\* popTag: the innermost open element ends
PopTag(st) ==
    LET d == Len(st.stack) IN
    [st EXCEPT !.stack = SubSeq(@, 1, d - 1),
               !.out = IF st.body > 0 THEN Append(@, EndTag(st.stack[d])) ELSE @,
               !.body = IF d = st.body THEN -1 ELSE @]

RECURSIVE PopToTag(_, _)
\* _popToTag: an end tag closes the nearest open element of its name and all
\* elements inside it; an end tag with no open element is ignored
PopToTag(st, n) ==
    IF ~Contains(st.stack, n) THEN st
    ELSE IF st.stack[Len(st.stack)] = n THEN PopTag(st)
    ELSE PopToTag(PopTag(st), n)

\* one token of markup: inside script or style everything up to the matching
\* end tag is text
Feed(st, t) ==
    IF InRaw(st)
    THEN IF t = EndTag(st.stack[Len(st.stack)])
         THEN PopTag(EndData(st))
         ELSE [st EXCEPT !.cur = Append(@, t)]
    ELSE IF t \in StartTags
    THEN LET s1 == EndData(st)
             first == TagName(t) = "body" /\ s1.body = 0
         IN [s1 EXCEPT !.stack = Append(@, TagName(t)),
                       !.body = IF first THEN Len(s1.stack) + 1 ELSE @,
                       !.out = IF first \/ s1.body > 0 THEN Append(@, t) ELSE @]
    ELSE IF t \in EndTags
    THEN PopToTag(EndData(st), TagName(t))
    ELSE [st EXCEPT !.cur = Append(@, t)]

RECURSIVE FeedAll(_, _)
FeedAll(st, s) == IF s = <<>> THEN st ELSE FeedAll(Feed(st, Head(s)), Tail(s))

RECURSIVE CloseAll(_)
CloseAll(st) == IF st.stack = <<>> THEN st ELSE CloseAll(PopTag(st))

ParseHtml(s) == CloseAll(EndData(FeedAll(Parser0, s)))

\* extract_body_content: str(soup.body) if soup.body else ""; "" on any
\* exception (markup that is None)
extract_body_content(v) ==
    IF v.isNone THEN <<>>
    ELSE LET p == ParseHtml(v.str) IN IF p.body = 0 THEN <<>> ELSE p.out

RECURSIVE Join(_, _)
\* sep.join(parts)
Join(parts, sep) ==
    IF parts = <<>> THEN <<>>
    ELSE IF Len(parts) = 1 THEN parts[1]
    ELSE parts[1] \o <<sep>> \o Join(Tail(parts), sep)

RECURSIVE SplitOn(_, _)
\* text.split(sep)
SplitOn(s, sep) ==
    IF ~Contains(s, sep) THEN <<s>>
    ELSE LET i == CHOOSE k \in 1..Len(s) : s[k] = sep /\ \A j \in 1..(k - 1) : s[j] # sep
         IN <<SubSeq(s, 1, i - 1)>> \o SplitOn(SubSeq(s, i + 1, Len(s)), sep)

RECURSIVE Strip(_)
\* line.strip()
Strip(s) ==
    IF s = <<>> THEN s
    ELSE IF s[1] \in Whitespace THEN Strip(Tail(s))
    ELSE IF s[Len(s)] \in Whitespace THEN Strip(SubSeq(s, 1, Len(s) - 1))
    ELSE s

RECURSIVE KeptLines(_)
\* [line for line in lines if line.strip()]
KeptLines(lines) ==
    IF lines = <<>> THEN <<>>
    ELSE (IF Strip(Head(lines)) = <<>> THEN <<>> ELSE <<Head(lines)>>)
         \o KeptLines(Tail(lines))

RECURSIVE StrippedLines(_)
\* [line.strip() for line in lines if line.strip()]
StrippedLines(lines) ==
    IF lines = <<>> THEN <<>>
    ELSE (IF Strip(Head(lines)) = <<>> THEN <<>> ELSE <<Strip(Head(lines))>>)
         \o StrippedLines(Tail(lines))

\* clean_body_content: the text outside script and style, one text node per
\* line, each line stripped, blank lines dropped
clean_body_content(s) ==
    Join(StrippedLines(SplitOn(Join(ParseHtml(s).texts, "\n"), "\n")), "\n")

\* ------------------------------------------------------------------ state
VARIABLES
    AUTH,          \* os.getenv("AUTH")
    pc,            \* position of the running call
    entry,         \* the entry point that was called
    website,       \* the URL argument
    max_retries,   \* scrape_website's max_retries
    attempt,       \* the loop variable of scrape_website
    driver,        \* 0 for None, else the session opened by this attempt
    openSessions,  \* sessions opened and not yet quit
    exc,           \* the exception being handled in the try statement
    pending,       \* what the try statement completes with after finally
    html,          \* driver.page_source of this attempt
    captcha,       \* how the captcha wait of this attempt ended
    quitOk,        \* whether the last driver.quit() returned normally
    connects,      \* Remote(...) calls of this scrape_website call
    sessions,      \* sessions those calls opened
    quits,         \* driver.quit() calls of this scrape_website call
    delays,        \* the time.sleep() arguments of this call, in order
    log,           \* how each finished attempt ended: NoExc or its exception
    outcome,       \* how scrape_website ended
    httpGets,      \* the URLs fetched by requests.get in this call
    res,           \* fallback_scrape: the completion of requests.get and raise_for_status
    result,        \* how the entry point ended
    ui,            \* the messages the form rendered for its last action
    dom_content,   \* st.session_state.dom_content
    body_content,  \* clean_body_content's argument, when a user of the module called it
    cleaned,       \* the value that call returned
    split_text,    \* split_dom_content's dom_content argument
    split_max,     \* split_dom_content's max_length argument
    dom_chunks,    \* the chunk list: split_dom_content's result, the extractor's input
    parse_description, \* parse_with_together's parse_description
    idx,           \* how many chunks parse_with_together has finished
    parsed_results,    \* parse_with_together's parsed_results
    requests,      \* the model requests issued by this call, in order
    replies,       \* the model responses received by this call, in order
    failed         \* the number of the chunk whose model call raised, 0 if none

vars == <<AUTH, pc, entry, website, max_retries, attempt, driver, openSessions, exc,
          pending, html, captcha, quitOk, connects, sessions, quits, delays, log,
          outcome, httpGets, res, result, ui, dom_content, body_content, cleaned,
                   split_text, split_max,
          dom_chunks, parse_description, idx, parsed_results, requests, replies,
          failed>>

cleanVars == <<body_content, cleaned>>

parseVars == <<split_text, split_max, dom_chunks, parse_description, idx,
               parsed_results, requests, replies, failed>>

NoCompletion == [kind |-> "none", val |-> None, exc |-> NoExc]
Returns(v) == [kind |-> "return", val |-> v, exc |-> NoExc]
Raises(e) == [kind |-> "raise", val |-> None, exc |-> e]

Init ==
    /\ AUTH \in AuthValues
    /\ pc = "idle"
    /\ entry = "none"
    /\ website = <<>>
    /\ max_retries = DefaultMaxRetries
    /\ attempt = 0
    /\ driver = 0
    /\ openSessions = {}
    /\ exc = NoExc
    /\ pending = NoCompletion
    /\ html = None
    /\ captcha = "none"
    /\ quitOk = TRUE
    /\ connects = 0
    /\ sessions = 0
    /\ quits = 0
    /\ delays = <<>>
    /\ log = <<>>
    /\ outcome = NoCompletion
    /\ httpGets = <<>>
    /\ res = NoCompletion
    /\ result = NoCompletion
    /\ ui = <<>>
    /\ dom_content = None
    /\ body_content = None
    /\ cleaned = None
    /\ split_text = <<>>
    /\ split_max = 0
    /\ dom_chunks = <<>>
    /\ parse_description = <<>>
    /\ idx = 0
    /\ parsed_results = <<>>
    /\ requests = <<>>
    /\ replies = <<>>
    /\ failed = 0

\* main.py run for a click on "Scrape Website", and for one on "Parse Content"
FormEntries == {"main", "main_parse"}

\* the locals of a fresh call of an entry point: a program calls one function
\* of the module, or it is the form, whose actions follow one another
StartCall(e, url, mr, to) ==
    /\ \/ pc = "idle"
       \/ pc = "done" /\ entry \in FormEntries /\ e \in FormEntries
    /\ pc' = to
    /\ entry' = e
    /\ website' = url
    /\ max_retries' = mr
    /\ attempt' = 0
    /\ driver' = 0
    /\ exc' = NoExc
    /\ pending' = NoCompletion
    /\ html' = None
    /\ captcha' = "none"
    /\ quitOk' = TRUE
    /\ connects' = 0
    /\ sessions' = 0
    /\ quits' = 0
    /\ delays' = <<>>
    /\ log' = <<>>
    /\ outcome' = NoCompletion
    /\ httpGets' = <<>>
    /\ res' = NoCompletion
    /\ result' = NoCompletion
    /\ UNCHANGED <<AUTH, openSessions>>

\* the locals of the chunker and the extractor of a fresh call
StartParse(text, n, chunks, description) ==
    /\ split_text' = text
    /\ split_max' = n
    /\ dom_chunks' = chunks
    /\ parse_description' = description
    /\ idx' = 0
    /\ parsed_results' = <<>>
    /\ requests' = <<>>
    /\ replies' = <<>>
    /\ failed' = 0

\* scrape_website(website, max_retries) called by a user of the module
CallScrapeWebsite ==
    \E url \in Urls, mr \in 0..MaxRetriesBound :
        /\ StartCall("scrape_website", url, mr, "auth")
        /\ StartParse(<<>>, 0, <<>>, <<>>)
        /\ UNCHANGED <<ui, dom_content, cleanVars>>

\* scrape_with_fallback(website): scrape_website(website) with the defaults
CallScrapeWithFallback ==
    \E url \in Urls :
        /\ StartCall("scrape_with_fallback", url, DefaultMaxRetries, "auth")
        /\ StartParse(<<>>, 0, <<>>, <<>>)
        /\ UNCHANGED <<ui, dom_content, cleanVars>>

\* the check without the test for ":"
get_auth_credentials_no_format_test(auth) ==
    IF ~Truthy(auth) THEN Exc("ValueError", FALSE, "auth_missing") ELSE NoExc

\* get_auth_credentials(): the exception it raises, or NoExc
get_auth_credentials(auth) ==
    IF ~Truthy(auth) THEN Exc("ValueError", FALSE, "auth_missing")
    ELSE IF ~Contains(auth.str, ":") THEN Exc("ValueError", FALSE, "auth_format")
    ELSE NoExc

\* scrape_website, lines 63-66: the credential check before the loop
GetAuth ==
    /\ pc = "auth"
    /\ LET e == get_auth_credentials(AUTH) IN
        IF e # NoExc
        THEN /\ outcome' = Raises(e)
             /\ pc' = "exit"
             /\ UNCHANGED attempt
        ELSE /\ attempt' = 1
             /\ pc' = "for"
             /\ UNCHANGED outcome
    /\ UNCHANGED <<AUTH, entry, website, max_retries, driver, openSessions, exc, pending,
                   html, captcha, quitOk, connects, sessions, quits, delays, log, httpGets, res,
                   result, ui, dom_content, cleanVars, parseVars>>

\* for attempt in range(1, max_retries + 1): driver = None
ForAttempt ==
    /\ pc = "for"
    /\ IF attempt <= max_retries
       THEN /\ pc' = "connect"
            /\ UNCHANGED outcome
       ELSE \* the loop ends and the function falls off its end
            /\ pc' = "exit"
            /\ outcome' = Returns(None)
    /\ driver' = 0
    /\ exc' = NoExc
    /\ pending' = NoCompletion
    /\ html' = None
    /\ captcha' = "none"
    /\ UNCHANGED <<AUTH, entry, website, max_retries, attempt, openSessions, quitOk,
                   connects, sessions, quits, delays, log, httpGets, res, result, ui, dom_content, cleanVars, parseVars>>

\* driver = Remote(connection, options=options)
Connect ==
    /\ pc = "connect"
    /\ connects' = connects + 1
    /\ \/ /\ driver' = attempt
          /\ openSessions' = openSessions \cup {attempt}
          /\ sessions' = sessions + 1
          /\ pc' = "navigate"
          /\ UNCHANGED exc
       \/ \E e \in RemoteErrors :
          /\ exc' = e
          /\ pc' = "except"
          /\ UNCHANGED <<driver, openSessions, sessions>>
    /\ UNCHANGED <<AUTH, entry, website, max_retries, attempt, pending, html, captcha,
                   quitOk, quits, delays, log, outcome, httpGets, res, result, ui,
                   dom_content, cleanVars, parseVars>>

\* set_page_load_timeout, implicitly_wait, driver.get(website)
Navigate ==
    /\ pc = "navigate"
    /\ \/ /\ pc' = "captcha"
          /\ UNCHANGED exc
       \/ \E e \in RemoteErrors :
          /\ exc' = e
          /\ pc' = "except"
    /\ UNCHANGED <<AUTH, entry, website, max_retries, attempt, driver, openSessions,
                   pending, html, captcha, quitOk, connects, sessions, quits, delays, log,
                   outcome, httpGets, res, result, ui, dom_content, cleanVars, parseVars>>

\* an inner try with no except clause: the error goes to the outer handlers
CaptchaPropagated(e) == e

\* except Exception: logger.info(...); what is left of the error e that
\* Captcha.waitForSolve raised (NoExc: nothing)
CaptchaRaised(e) == IF IsInstance(e, "Exception") THEN NoExc ELSE e

\* the inner try: Captcha.waitForSolve returns a status, or raises
Captcha ==
    /\ pc = "captcha"
    /\ \/ /\ captcha' = "solved"
          /\ pc' = "read"
          /\ UNCHANGED exc
       \/ \E e \in RemoteErrors :
          LET x == CaptchaRaised(e) IN
          /\ captcha' = "raised"
          /\ IF x = NoExc
             THEN /\ pc' = "read"
                  /\ UNCHANGED exc
             ELSE /\ exc' = x
                  /\ pc' = "except"
    /\ UNCHANGED <<AUTH, entry, website, max_retries, attempt, driver, openSessions,
                   pending, html, quitOk, connects, sessions, quits, delays, log, outcome,
                   httpGets, res, result, ui, dom_content, cleanVars, parseVars>>

\* a wrong threshold: len(html) > 2000
LongEnoughTypo(h) == Truthy(h) /\ StrLen(h.str) > 10 * MinHtmlLen

\* if html and len(html) > 200
LongEnough(h) == Truthy(h) /\ StrLen(h.str) > MinHtmlLen

\* html = driver.page_source; return html if long enough, else raise Exception
ReadPage ==
    /\ pc = "read"
    /\ \/ \E p \in Pages :
          /\ html' = Str(p)
          /\ IF LongEnough(Str(p))
             THEN /\ pending' = Returns(Str(p))
                  /\ log' = Append(log, NoExc)
                  /\ pc' = "finally"
                  /\ UNCHANGED exc
             ELSE /\ exc' = Exc("Exception", FALSE, "short")
                  /\ pc' = "except"
                  /\ UNCHANGED <<pending, log>>
       \/ \E e \in RemoteErrors :
          /\ exc' = e
          /\ pc' = "except"
          /\ UNCHANGED <<html, pending, log>>
    /\ UNCHANGED <<AUTH, entry, website, max_retries, attempt, driver, openSessions,
                   captcha, quitOk, connects, sessions, quits, delays, outcome, httpGets, res,
                   result, ui, dom_content, cleanVars, parseVars>>

\* the clauses as they would be tried with the more specific class first
ExceptClausesTimeoutFirst == <<"TimeoutException", "WebDriverException">>

\* the except clauses of the outer try, in source order
ExceptClauses == <<"WebDriverException", "TimeoutException">>

\* the clause that handles e: the first one e is an instance of, 0 if none
SelectedClause(e) ==
    IF \E i \in 1..Len(ExceptClauses) : IsInstance(e, ExceptClauses[i])
    THEN CHOOSE i \in 1..Len(ExceptClauses) :
            /\ IsInstance(e, ExceptClauses[i])
            /\ \A j \in 1..(i - 1) : ~IsInstance(e, ExceptClauses[j])
    ELSE 0

\* the handler without the "Wrong customer name" test
OnWebDriverExceptionNoAuthTest(e, k, mr) ==
    IF k < mr THEN <<NoCompletion, <<Pow(BackoffBase, k)>> >>
    ELSE <<Raises(Exc("Exception", e.sig, "failed_after")), <<>> >>

\* except WebDriverException: <<completion, sleeps>>
OnWebDriverException(e, k, mr) ==
    IF e.sig THEN <<Raises(Exc("ValueError", FALSE, "auth_rejected")), <<>> >>
    ELSE IF k < mr THEN <<NoCompletion, <<Pow(BackoffBase, k)>> >>
    ELSE <<Raises(Exc("Exception", e.sig, "failed_after")), <<>> >>

\* except TimeoutException: <<completion, sleeps>>
OnTimeoutException(e, k, mr) ==
    IF k = mr THEN <<Raises(Exc("Exception", FALSE, "timed_out")), <<>> >>
    ELSE <<NoCompletion, <<TimeoutSleep>> >>

\* the handling of exception e raised in attempt k: <<completion, sleeps>>
Handle(e, k, mr) ==
    LET i == SelectedClause(e) IN
    IF i = 0 THEN <<Raises(e), <<>> >>
    ELSE IF ExceptClauses[i] = "WebDriverException" THEN OnWebDriverException(e, k, mr)
    ELSE OnTimeoutException(e, k, mr)

\* an exception left the try body: run the matching except clause
Except ==
    /\ pc = "except"
    /\ LET h == Handle(exc, attempt, max_retries) IN
        /\ pending' = h[1]
        /\ delays' = delays \o h[2]
    /\ log' = Append(log, exc)
    /\ pc' = "finally"
    /\ UNCHANGED <<AUTH, entry, website, max_retries, attempt, driver, openSessions, exc,
                   html, captcha, quitOk, connects, sessions, quits, outcome, httpGets, res, result,
                   ui, dom_content, cleanVars, parseVars>>

\* driver.close() in place of driver.quit(): the window closes, the session stays
AfterClose(open, d) == open

\* driver.quit(): the session d is ended, whether or not quit() raises
AfterQuit(open, d) == open \ {d}

\* finally: if driver: try driver.quit() except: pass; then the try completes
Finally ==
    /\ pc = "finally"
    /\ IF driver # 0
       THEN /\ quits' = quits + 1
            /\ openSessions' = AfterQuit(openSessions, driver)
            /\ quitOk' \in BOOLEAN
       ELSE UNCHANGED <<quits, openSessions, quitOk>>
    /\ IF pending.kind = "none"
       THEN /\ attempt' = attempt + 1
            /\ pc' = "for"
            /\ UNCHANGED outcome
       ELSE /\ outcome' = pending
            /\ pc' = "exit"
            /\ UNCHANGED attempt
    /\ UNCHANGED <<AUTH, entry, website, max_retries, driver, exc, pending, html, captcha,
                   connects, sessions, delays, log, httpGets, res, result, ui, dom_content, cleanVars, parseVars>>

\* scrape_website returns to a direct caller
ExitScrapeWebsite ==
    /\ pc = "exit"
    /\ entry = "scrape_website"
    /\ result' = outcome
    /\ pc' = "done"
    /\ UNCHANGED <<AUTH, entry, website, max_retries, attempt, driver, openSessions, exc,
                   pending, html, captcha, quitOk, connects, sessions, quits, delays, log,
                   outcome, httpGets, res, ui, dom_content, cleanVars, parseVars>>

\* what requests.get(...).text can be
GetBodies == Pages

\* scrape_with_fallback: scrape_website's value is returned; any Exception it
\* raises is logged and fallback_scrape is called
ExitScrapeWithFallback ==
    /\ pc = "exit"
    /\ entry = "scrape_with_fallback"
    /\ IF outcome.kind = "raise" /\ IsInstance(outcome.exc, "Exception")
       THEN /\ pc' = "fallback"
            /\ UNCHANGED result
       ELSE /\ pc' = "done"
            /\ result' = outcome
    /\ UNCHANGED <<AUTH, entry, website, max_retries, attempt, driver, openSessions, exc,
                   pending, html, captcha, quitOk, connects, sessions, quits, delays, log,
                   outcome, httpGets, res, ui, dom_content, cleanVars, parseVars>>

\* what requests.get or raise_for_status can raise: a connection error, a
\* timeout, an HTTP error status
GetErrors == {Exc("Exception", FALSE, "http")}

\* a fallback that insists on the length scrape_website asks for
FallbackResultWithThreshold(r) ==
    IF r.kind = "return" /\ LongEnough(r.val)
    THEN r
    ELSE Raises(Exc("Exception", FALSE, "fallback_failed"))

\* return res.text; except Exception: raise Exception("Fallback scraping
\* failed as well.")
FallbackResult(r) ==
    IF r.kind = "return"
    THEN r
    ELSE Raises(Exc("Exception", FALSE, "fallback_failed"))

\* fallback_scrape: res = requests.get(website, ...), res.raise_for_status()
FallbackScrape ==
    /\ pc = "fallback"
    /\ httpGets' = Append(httpGets, website)
    /\ \E r \in {Returns(Str(body)) : body \in GetBodies} \cup {Raises(e) : e \in GetErrors} :
          /\ res' = r
          /\ result' = FallbackResult(r)
    /\ pc' = "done"
    /\ UNCHANGED <<AUTH, entry, website, max_retries, attempt, driver, openSessions, exc,
                   pending, html, captcha, quitOk, connects, sessions, quits, delays, log,
                   outcome, ui, dom_content, cleanVars, parseVars>>

\* a form that renders step 2 unconditionally
Step2Always(dc) == <<"parse_form">>

\* main.py step 2, rendered on every run of the script: the parse form is
\* shown when dom_content is in the session state
Step2(dc) == IF dc.isNone THEN <<>> ELSE <<"parse_form">>

\* main.py: the "Scrape Website" button with the URL field holding url
ClickScrape ==
    \E url \in Urls :
        /\ StartParse(<<>>, 0, <<>>, <<>>)
        /\ UNCHANGED <<dom_content, cleanVars>>
        /\ IF url # <<>>
           THEN /\ StartCall("main", url, DefaultMaxRetries, "auth")
                /\ ui' = <<"scraping">>
           ELSE /\ StartCall("main", url, DefaultMaxRetries, "done")
                /\ ui' = <<"warning_url">> \o Step2(dom_content)

\* a form whose try has only: except WebDriverException as e
FormCatchesWebDriverOnly(e) == IsInstance(e, "WebDriverException")

\* main.py, in both steps: except Exception as e
FormCatches(e) == IsInstance(e, "Exception")

\* main.py lines 22-38: scrape_website(url) returned or raised inside the try;
\* an error the except clause does not catch ends the run of the script
ExitScrapeStep ==
    /\ pc = "exit"
    /\ entry = "main"
    /\ IF outcome.kind = "return"
       THEN LET cleaned_content ==
                    Str(clean_body_content(extract_body_content(outcome.val)))
            IN /\ dom_content' = cleaned_content
               /\ ui' = ui \o <<"success", "expander">> \o Step2(cleaned_content)
               /\ result' = Returns(None)
       ELSE /\ IF FormCatches(outcome.exc)
               THEN /\ ui' = ui \o <<"error", "info">> \o Step2(dom_content)
                    /\ result' = Returns(None)
               ELSE /\ ui' = ui \o <<"traceback">>
                    /\ result' = Raises(outcome.exc)
            /\ UNCHANGED dom_content
    /\ pc' = "done"
    /\ UNCHANGED <<AUTH, entry, website, max_retries, attempt, driver, openSessions, exc,
                   pending, html, captcha, quitOk, connects, sessions, quits, delays, log,
                   outcome, httpGets, res, cleanVars, parseVars>>

\* --------------------------------------------------- chunker and extractor
RECURSIVE SeqsUpTo(_, _)
\* the sequences over alphabet S of length at most n
SeqsUpTo(S, n) ==
    IF n = 0 THEN {<<>>}
    ELSE LET shorter == SeqsUpTo(S, n - 1)
         IN shorter \cup {Append(q, c) : q \in shorter, c \in S}

Texts == SeqsUpTo({"a", "b"}, MaxTextLen)
ParseTexts == SeqsUpTo({"a", "b"}, MaxParseTextLen)
Descriptions == { <<>>, <<"d">> }
\* what the hosted model can answer: nothing, one line, or two lines
Responses == { <<>>, <<"x">>, <<"y">>, <<"x", "\n", "y">> }
ModelErrors == { Exc("Exception", FALSE, "model") }

RECURSIVE Range(_, _, _)
\* range(start, stop, step) for step > 0, as the sequence it iterates over
Range(start, stop, step) ==
    IF start >= stop THEN <<>> ELSE <<start>> \o Range(start + step, stop, step)

\* s[i:j + 1]: a slice one character too long
SliceOverlapping(s, i, j) == SubSeq(s, i + 1, IF j + 1 < Len(s) THEN j + 1 ELSE Len(s))

\* s[i:j] for 0 <= i <= j
Slice(s, i, j) == SubSeq(s, i + 1, IF j < Len(s) THEN j ELSE Len(s))

\* split_dom_content(dom_content, max_length)
split_dom_content(text, max_length) ==
    IF text # <<>>
    THEN LET starts == Range(0, Len(text), max_length)
         IN [k \in 1..Len(starts) |-> Slice(text, starts[k], starts[k] + max_length)]
    ELSE <<>>

\* split_dom_content called by a user of the module, max_length given or defaulted
CallSplitDomContent ==
    \E text \in Texts, n \in (1..MaxChunkLen) \cup {DefaultMaxLength} :
        /\ StartCall("split_dom_content", <<>>, DefaultMaxRetries, "done")
        /\ StartParse(text, n, split_dom_content(text, n), <<>>)
        /\ UNCHANGED <<ui, dom_content, cleanVars>>

\* parse_with_together(dom_chunks, parse_description) called by a user of the
\* module on a chunk list the chunker produced
CallParseWithTogether ==
    \E text \in ParseTexts, n \in 1..MaxChunkLen, d \in Descriptions :
        /\ StartCall("parse_with_together", <<>>, DefaultMaxRetries, "invoke")
        /\ StartParse(<<>>, 0, split_dom_content(text, n), d)
        /\ UNCHANGED <<ui, dom_content, cleanVars>>

\* the argument of chain.invoke for the chunk after the i finished ones
ModelRequest(chunks, description, i) ==
    [dom_content |-> chunks[i + 1], parse_description |-> description]

\* for i, chunk in enumerate(dom_chunks, start=1): chain.invoke(...) is sent
IssueRequest ==
    /\ pc = "invoke"
    /\ idx < Len(dom_chunks)
    /\ requests' = Append(requests, ModelRequest(dom_chunks, parse_description, idx))
    /\ pc' = "await"
    /\ UNCHANGED <<AUTH, entry, website, max_retries, attempt, driver, openSessions, exc,
                   pending, html, captcha, quitOk, connects, sessions, quits, delays, log,
                   outcome, httpGets, res, result, ui, dom_content, body_content, cleaned,
                   split_text, split_max,
                   dom_chunks, parse_description, idx, parsed_results, replies,
                   failed>>

\* parsed_results.insert(0, response.content)
PrependResult(results, content) == <<content>> \o results

\* parsed_results.append(response.content)
AppendResult(results, content) == Append(results, content)

\* a loop that catches the error of a model call and goes on with the next chunk
ModelCallSwallowed(e) == NoCompletion

\* chain.invoke raised e: the loop has no except clause, e leaves the function
ModelCallRaised(e) == Raises(e)

\* chain.invoke returns a response, or raises
ReceiveResponse ==
    /\ pc = "await"
    /\ \/ \E r \in Responses :
          /\ replies' = Append(replies, r)
          /\ parsed_results' = AppendResult(parsed_results, r)
          /\ idx' = idx + 1
          /\ pc' = "invoke"
          /\ UNCHANGED <<outcome, failed>>
       \/ \E e \in ModelErrors :
          LET c == ModelCallRaised(e) IN
          /\ failed' = idx + 1
          /\ IF c.kind = "raise"
             THEN /\ outcome' = c
                  /\ pc' = "parse_exit"
                  /\ UNCHANGED idx
             ELSE /\ idx' = idx + 1
                  /\ pc' = "invoke"
                  /\ UNCHANGED outcome
          /\ UNCHANGED <<replies, parsed_results>>
    /\ UNCHANGED <<AUTH, entry, website, max_retries, attempt, driver, openSessions, exc,
                   pending, html, captcha, quitOk, connects, sessions, quits, delays, log,
                   httpGets, res, result, ui, dom_content, body_content, cleaned,
                   split_text, split_max,
                   dom_chunks, parse_description, requests>>

\* ", ".join(parsed_results)
JoinResultsWithComma(results) == Join(results, ",")

\* return "\n".join(parsed_results)
JoinResults(results) == Join(results, "\n")

\* the loop is over: the joined responses are returned
ParseReturn ==
    /\ pc = "invoke"
    /\ idx >= Len(dom_chunks)
    /\ outcome' = Returns(Str(JoinResults(parsed_results)))
    /\ pc' = "parse_exit"
    /\ UNCHANGED <<AUTH, entry, website, max_retries, attempt, driver, openSessions, exc,
                   pending, html, captcha, quitOk, connects, sessions, quits, delays, log,
                   httpGets, res, result, ui, dom_content, cleanVars, parseVars>>

\* parse_with_together returns to a direct caller
ExitParseWithTogether ==
    /\ pc = "parse_exit"
    /\ entry = "parse_with_together"
    /\ result' = outcome
    /\ pc' = "done"
    /\ UNCHANGED <<AUTH, entry, website, max_retries, attempt, driver, openSessions, exc,
                   pending, html, captcha, quitOk, connects, sessions, quits, delays, log,
                   outcome, httpGets, res, ui, dom_content, cleanVars, parseVars>>

\* ---------------------------------------------------- the form, step 2
\* main.py lines 46-69: the "Parse Content" button, which exists when step 2
\* is rendered, with the text area holding d; split_dom_content is called with
\* the default max_length
ClickParse ==
    \E d \in Descriptions :
        /\ Step2(dom_content) # <<>>
        /\ UNCHANGED <<dom_content, cleanVars>>
        /\ IF d # <<>>
           THEN /\ StartCall("main_parse", <<>>, DefaultMaxRetries, "invoke")
                /\ StartParse(dom_content.str, DefaultMaxLength,
                              split_dom_content(dom_content.str, DefaultMaxLength), d)
                /\ ui' = Step2(dom_content) \o <<"parsing">>
           ELSE /\ StartCall("main_parse", <<>>, DefaultMaxRetries, "done")
                /\ StartParse(<<>>, 0, <<>>, d)
                /\ ui' = Step2(dom_content) \o <<"warning_description">>

\* main.py lines 55-66: parse_with_together returned or raised inside the try
ExitParseStep ==
    /\ pc = "parse_exit"
    /\ entry = "main_parse"
    /\ IF outcome.kind = "return"
       THEN /\ ui' = ui \o (IF Strip(outcome.val.str) # <<>>
                             THEN <<"parse_success", "parsed_result">>
                             ELSE <<"warning_no_results">>)
            /\ result' = Returns(None)
       ELSE IF FormCatches(outcome.exc)
            THEN /\ ui' = ui \o <<"error", "info">>
                 /\ result' = Returns(None)
            ELSE /\ ui' = ui \o <<"traceback">>
                 /\ result' = Raises(outcome.exc)
    /\ pc' = "done"
    /\ UNCHANGED <<AUTH, entry, website, max_retries, attempt, driver, openSessions, exc,
                   pending, html, captcha, quitOk, connects, sessions, quits, delays, log,
                   outcome, httpGets, res, dom_content, cleanVars, parseVars>>

\* ------------------------------------------------------- specifications
\* the fetcher and the form
Next ==
    \/ CallScrapeWebsite
    \/ CallScrapeWithFallback
    \/ GetAuth
    \/ ForAttempt
    \/ Connect
    \/ Navigate
    \/ Captcha
    \/ ReadPage
    \/ Except
    \/ Finally
    \/ ExitScrapeWebsite
    \/ ExitScrapeWithFallback
    \/ FallbackScrape
    \/ ClickScrape
    \/ ExitScrapeStep
    \/ ClickParse
    \/ IssueRequest
    \/ ReceiveResponse
    \/ ParseReturn
    \/ ExitParseStep

Spec == Init /\ [][Next]_vars

\* the chunker and the extractor, called directly
InitParse == Init /\ AUTH = None

NextParse ==
    \/ CallSplitDomContent
    \/ CallParseWithTogether
    \/ IssueRequest
    \/ ReceiveResponse
    \/ ParseReturn
    \/ ExitParseWithTogether

SpecParse == InitParse /\ [][NextParse]_vars

\* the cleaner, called directly
CleanTokens == {"a", "b", " ", "\n", "<p>", "</p>", "<script>", "</script>", "<style>",
                "</style>"}

\* what a caller can pass: None, or markup of at most MaxDocLen tokens
CleanInputs == {None} \cup {Str(d) : d \in SeqsUpTo(CleanTokens, MaxDocLen)}

\* clean_body_content(body_content) as called: BeautifulSoup raises on a value
\* that is not markup, and except Exception returns ""
CleanOrEmpty(v) == IF v.isNone THEN <<>> ELSE clean_body_content(v.str)

\* clean_body_content called by a user of the module
CallCleanBodyContent ==
    /\ pc = "idle"
    /\ \E v \in CleanInputs :
        /\ StartCall("clean_body_content", <<>>, DefaultMaxRetries, "done")
        /\ StartParse(<<>>, 0, <<>>, <<>>)
        /\ body_content' = v
        /\ cleaned' = Str(CleanOrEmpty(v))
        /\ UNCHANGED <<ui, dom_content>>

InitClean == Init /\ AUTH = None

NextClean == CallCleanBodyContent

SpecClean == InitClean /\ [][NextClean]_vars

\* ----------------------------------------------------------------- claims
FetchEntries == {"scrape_website", "scrape_with_fallback", "main"}

\* scrape_website has been called by the running entry point
ScrapeCalled ==
    /\ entry \in FetchEntries
    /\ pc # "idle"
    /\ ~(entry = "main" /\ website = <<>>)

\* scrape_website has returned or raised
ScrapeEnded == ScrapeCalled /\ outcome.kind # "none"

\* how the running attempt's try statement completes, before and after finally
Completion == IF pc = "finally" THEN pending ELSE outcome

\* a session or navigation error without the permanent-auth signature
Transient(e) == e.cls \in {"WebDriverException", "TimeoutException"} /\ ~e.sig

\* a session error carrying "Wrong customer name"
AuthRejected(e) == e.cls \in {"WebDriverException", "TimeoutException"} /\ e.sig

AllTransient(l) == \A k \in 1..Len(l) : Transient(l[k])

\* C1: when attempts 1..N-1 failed with a transient error and attempt N read
\* markup longer than the threshold, scrape_website returns exactly that markup,
\* attempt N is within 1..max_retries, and exactly N Remote(...) calls were made.
C1_RetryThenSuccess ==
    ( /\ ScrapeCalled
      /\ Truthy(html)
      /\ StrLen(html.str) > MinHtmlLen
      /\ \A i \in 1..(attempt - 1) : i <= Len(log) /\ Transient(log[i]) )
    => /\ attempt \in 1..max_retries
       /\ connects = attempt
       /\ Len(log) = attempt
       /\ log[attempt] = NoExc
       /\ Completion = Returns(html)
       /\ (pc = "done" /\ entry = "scrape_website") => result = Returns(html)

\* two transient failures, one of them a page-load timeout, then a long page
C1_Witness ==
    /\ pc = "done"
    /\ entry = "scrape_website"
    /\ attempt = 3
    /\ connects = 3
    /\ Len(log) = 3
    /\ log[1].cls = "TimeoutException"
    /\ Transient(log[2])
    /\ Truthy(html)
    /\ result = Returns(html)

\* C2 (as claimed): a too-short or empty page on attempt k < max_retries is
\* retried: scrape_website never ends on a short page before attempt max_retries.
C2_ShortResultRetried ==
    ( /\ ScrapeEnded
      /\ ~html.isNone
      /\ StrLen(html.str) <= MinHtmlLen )
    => attempt = max_retries

\* C3: an attempt k that fails with the permanent-auth signature is the last
\* one: k Remote(...) calls, only the k-1 delays of the earlier attempts, and
\* scrape_website raises the ValueError about AUTH.
C3_AuthRejectionNotRetried ==
    ScrapeCalled =>
        \A k \in 1..Len(log) :
            AuthRejected(log[k]) =>
                /\ k = Len(log)
                /\ attempt = k
                /\ connects = k
                /\ Len(delays) = k - 1
                /\ Completion.kind = "raise"
                /\ Completion.exc.cls = "ValueError"
                /\ Completion.exc.msg = "auth_rejected"
                /\ (pc = "done" /\ entry = "scrape_website") => result = outcome

\* the rejection arrives on attempt 2 of 3, after one backoff
C3_Witness ==
    /\ pc = "done"
    /\ entry = "scrape_website"
    /\ max_retries = 3
    /\ Len(log) = 2
    /\ AuthRejected(log[2])
    /\ delays = <<2>>
    /\ result.kind = "raise"

\* C4: quit() has been called on every session but the running attempt's; at
\* most one session is open; none is open when an attempt starts, nor once
\* scrape_website has returned or raised.
C4_SessionCleanup ==
    /\ Cardinality(openSessions) <= 1
    /\ sessions = quits + Cardinality(openSessions)
    /\ openSessions # {} =>
          /\ openSessions = {attempt}
          /\ driver = attempt
          /\ pc \in {"navigate", "captcha", "read", "except", "finally"}
    /\ pc \in {"for", "connect"} => openSessions = {}
    /\ ScrapeEnded => openSessions = {}

\* three sessions opened and quit, the last quit() raising, and a failure raised
C4_Witness ==
    /\ pc = "done"
    /\ entry = "scrape_website"
    /\ sessions = 3
    /\ quits = 3
    /\ ~quitOk
    /\ outcome.kind = "raise"
    /\ openSessions = {}

\* C5: never more than max_retries attempts; the k-th delay is 2^k, follows a
\* transient failure of attempt k < max_retries, and delays strictly increase;
\* when every attempt failed transiently, exactly max_retries attempts were
\* made, an error is raised, and no delay follows the last attempt.
C5_ExhaustionAndBackoff ==
    ScrapeCalled =>
        /\ connects <= max_retries
        /\ Len(delays) <= Len(log)
        /\ \A k \in 1..Len(delays) :
              /\ delays[k] = 2 ^ k
              /\ k < max_retries
              /\ Transient(log[k])
              /\ k > 1 => delays[k] > delays[k - 1]
        /\ \A k \in 1..Len(log) :
              (Transient(log[k]) /\ k < max_retries) => Len(delays) >= k
        /\ (ScrapeEnded /\ log # <<>> /\ AllTransient(log)) =>
              /\ connects = max_retries
              /\ Len(log) = max_retries
              /\ Len(delays) = max_retries - 1
              /\ outcome.kind = "raise"

\* three transient failures, a timeout among them, with delays 2 and 4
C5_Witness ==
    /\ pc = "done"
    /\ entry = "scrape_website"
    /\ max_retries = 3
    /\ Len(log) = 3
    /\ AllTransient(log)
    /\ log[2].cls = "TimeoutException"
    /\ delays = <<2, 4>>
    /\ result.kind = "raise"

\* AUTH is absent, empty, or has no ":" between a user name and a password
BadCredential(a) == a.isNone \/ a.str = <<>> \/ \A i \in 1..Len(a.str) : a.str[i] # ":"

\* C6: with a bad credential scrape_website raises the configuration error
\* with no Remote(...) call, no session, no attempt and no delay.
C6_ConfigurationError ==
    (ScrapeCalled /\ BadCredential(AUTH)) =>
        /\ connects = 0
        /\ sessions = 0
        /\ openSessions = {}
        /\ attempt = 0
        /\ log = <<>>
        /\ delays = <<>>
        /\ pc # "auth" =>
              /\ outcome.kind = "raise"
              /\ outcome.exc.cls = "ValueError"
              /\ outcome.exc.msg \in {"auth_missing", "auth_format"}
        /\ (pc = "done" /\ entry = "scrape_website") => result = outcome

\* AUTH=u (no colon): the call has ended with the format error
C6_Witness ==
    /\ pc = "done"
    /\ entry = "scrape_website"
    /\ AUTH = Str(<<"u">>)
    /\ result.kind = "raise"
    /\ result.exc.msg = "auth_format"
    /\ connects = 0

\* C7 (as claimed): in the form's scrape step, once the remote fetch has
\* exhausted its retries, a direct HTTP GET of the same URL has been issued
\* before a scraping error is rendered.
C7_FormFallsBack ==
    ( /\ entry = "main"
      /\ pc = "done"
      /\ outcome.kind = "raise"
      /\ outcome.exc.msg = "failed_after"
      /\ \E i \in 1..Len(ui) : ui[i] = "error" )
    => httpGets = <<website>>

\* the least n with n * C >= L
CeilDiv(L, C) == CHOOSE n \in 0..L : n * C >= L /\ (n > 0 => (n - 1) * C < L)

RECURSIVE Concat(_)
Concat(ss) == IF ss = <<>> THEN <<>> ELSE Head(ss) \o Concat(Tail(ss))

\* C8: split_dom_content(text, C) with C >= 1 returns ceil(L/C) chunks, each
\* non-empty and of at most C characters, all but the last of exactly C;
\* chunk k holds the characters (k-1)*C+1.. of the text, their concatenation
\* is the text, and the empty text gives no chunk.
C8_Chunker ==
    entry = "split_dom_content" =>
        LET L == Len(split_text)
            C == split_max
            n == Len(dom_chunks)
        IN /\ C >= 1
           /\ n = CeilDiv(L, C)
           /\ \A k \in 1..n :
                 /\ dom_chunks[k] # <<>>
                 /\ Len(dom_chunks[k]) <= C
                 /\ k < n => Len(dom_chunks[k]) = C
                 /\ \A j \in 1..Len(dom_chunks[k]) :
                       /\ (k - 1) * C + j <= L
                       /\ dom_chunks[k][j] = split_text[(k - 1) * C + j]
           /\ Concat(dom_chunks) = split_text
           /\ split_text = <<>> => dom_chunks = <<>>

\* a text of two full chunks and a shorter last one
C8_Witness ==
    /\ entry = "split_dom_content"
    /\ pc = "done"
    /\ split_text = <<"a", "b", "b">>
    /\ split_max = 2
    /\ dom_chunks = << <<"a", "b">>, <<"b">> >>

\* a response that is one non-empty line
SingleLine(r) == r # <<>> /\ \A i \in 1..Len(r) : r[i] # "\n"

\* C9: while no model call has failed, request i carries chunk i and the
\* description, request i+1 is issued only after response i; on return there
\* were exactly n requests and the result is the responses joined by newlines
\* in chunk order: n lines, line i the response to chunk i, when every
\* response is one non-empty line.
C9_ExtractorOrdering ==
    (entry = "parse_with_together" /\ failed = 0) =>
        /\ Len(requests) <= Len(dom_chunks)
        /\ \A i \in 1..Len(requests) :
              requests[i] = [dom_content |-> dom_chunks[i],
                             parse_description |-> parse_description]
        /\ Len(requests) \in {Len(replies), Len(replies) + 1}
        /\ outcome.kind # "raise"
        /\ outcome.kind = "return" =>
              /\ Len(requests) = Len(dom_chunks)
              /\ Len(replies) = Len(dom_chunks)
              /\ ~outcome.val.isNone
              /\ outcome.val.str = Join(replies, "\n")
              /\ (dom_chunks # <<>> /\ \A i \in 1..Len(replies) : SingleLine(replies[i]))
                    => LET lines == SplitOn(outcome.val.str, "\n")
                       IN /\ Len(lines) = Len(dom_chunks)
                          /\ \A i \in 1..Len(lines) : lines[i] = replies[i]
        /\ pc = "done" => (result = outcome /\ result.kind = "return")

\* three chunks, three different one-line answers in a recognisable order
C9_Witness ==
    /\ entry = "parse_with_together"
    /\ pc = "done"
    /\ Len(dom_chunks) = 3
    /\ replies = << <<"x">>, <<"y">>, <<"y">> >>
    /\ result = Returns(Str(<<"x", "\n", "y", "\n", "y">>))

\* C10: when the model call for chunk k raised, parse_with_together has ended
\* by raising that error, with exactly k requests issued (one per chunk 1..k),
\* k-1 responses taken, and no value returned.
C10_FailurePropagates ==
    (entry = "parse_with_together" /\ failed # 0) =>
        /\ pc \in {"parse_exit", "done"}
        /\ outcome.kind = "raise"
        /\ outcome.exc \in ModelErrors
        /\ outcome.val = None
        /\ Len(requests) = failed
        /\ Len(replies) = failed - 1
        /\ idx = failed - 1
        /\ \A i \in 1..Len(requests) : requests[i].dom_content = dom_chunks[i]
        /\ pc = "done" => result = outcome

\* the second of three chunks fails
C10_Witness ==
    /\ entry = "parse_with_together"
    /\ pc = "done"
    /\ Len(dom_chunks) = 3
    /\ failed = 2
    /\ Len(requests) = 2
    /\ result.kind = "raise"

\* C11 as stated: parse_with_together, called with an empty description or
\* answered with an empty response for every chunk, returns a result that is
\* empty or whitespace-only.
C11_EmptyCases ==
    ( /\ entry = "parse_with_together"
      /\ outcome.kind = "return"
      /\ \/ parse_description = <<>>
         \/ \A i \in 1..Len(replies) : replies[i] = <<>> )
    => IsBlank(outcome.val.str)

\* C11: when every chunk was answered with an empty response, whatever the
\* description, parse_with_together returns only the newlines that separate the
\* responses (nothing for no chunk or one chunk), a result that is empty or
\* whitespace-only; one request was sent per chunk, the description in each,
\* an empty description included.
C11_EmptyResponses ==
    ( /\ entry = "parse_with_together"
      /\ outcome.kind = "return"
      /\ \A i \in 1..Len(replies) : replies[i] = <<>> )
    => /\ outcome.val = Str([i \in 1..(IF dom_chunks = <<>> THEN 0 ELSE Len(dom_chunks) - 1)
                               |-> "\n"])
       /\ IsBlank(outcome.val.str)
       /\ Len(requests) = Len(dom_chunks)
       /\ \A i \in 1..Len(requests) : requests[i].parse_description = parse_description
       /\ pc = "done" => result = outcome

\* three chunks, an empty description, three empty responses
C11_Witness ==
    /\ entry = "parse_with_together"
    /\ pc = "done"
    /\ Len(dom_chunks) = 3
    /\ parse_description = <<>>
    /\ Len(requests) = 3
    /\ replies = << <<>>, <<>>, <<>> >>
    /\ result = Returns(Str(<<"\n", "\n">>))

\* C14: the captcha step of an attempt, whether Captcha.waitForSolve returned
\* or raised any error, changes nothing but the captcha status: the attempt goes
\* on to read driver.page_source with the same attempt number, log, backoff
\* delays, session and pending completion, so an error of that step causes no
\* failure, no retry and no extra attempt.
C14_CaptchaTolerance ==
    /\ [][pc = "captcha" =>
            /\ pc' = "read"
            /\ captcha' \in {"solved", "raised"}
            /\ UNCHANGED <<AUTH, entry, website, max_retries, attempt, driver,
                           openSessions, exc, pending, html, quitOk, connects, sessions,
                           quits, delays, log, outcome, httpGets, res, result, ui,
                           dom_content, cleanVars, parseVars>>]_vars
    /\ []((pc = "read" /\ captcha = "raised") =>
            /\ connects = attempt
            /\ Len(log) = attempt - 1
            /\ pending = NoCompletion
            /\ driver \in openSessions)

\* the captcha step raised on the first attempt and that attempt returned the page
C14_Witness ==
    /\ entry = "scrape_website"
    /\ pc = "done"
    /\ captcha = "raised"
    /\ attempt = 1
    /\ connects = 1
    /\ log = <<NoExc>>
    /\ delays = <<>>
    /\ result = Returns(html)
    /\ StrLen(html.str) > MinHtmlLen

\* C15: for every max_retries, the value 0 included, a call of scrape_website
\* that has ended has either returned markup text of more than 200 characters
\* or raised an error; it has not returned without a value.
C15_ReturnOrFail ==
    ScrapeEnded =>
        \/ /\ outcome.kind = "return"
           /\ ~outcome.val.isNone
           /\ StrLen(outcome.val.str) > MinHtmlLen
        \/ /\ outcome.kind = "raise"
           /\ outcome.exc # NoExc

\* C16: in a call of scrape_with_fallback the direct HTTP GET is issued at most
\* once, for the URL of the call, and only after scrape_website has raised; when
\* scrape_website returned, its markup is the result and no GET was issued; when
\* the GET succeeded, its body is the result whatever its length; when the GET
\* failed too, the call ends by raising an error.
C16_FailoverEntryPoint ==
    entry = "scrape_with_fallback" =>
        /\ Len(httpGets) <= 1
        /\ httpGets # <<>> => /\ httpGets = <<website>>
                              /\ outcome.kind = "raise"
                              /\ res.kind # "none"
        /\ (httpGets = <<>>) = (res.kind = "none")
        /\ pc = "done" =>
            /\ outcome.kind = "return" => /\ result = outcome
                                          /\ httpGets = <<>>
            /\ outcome.kind = "raise" => Len(httpGets) = 1
            /\ res.kind = "return" => result = res
            /\ res.kind = "raise" => /\ result.kind = "raise"
                                     /\ result.exc.msg = "fallback_failed"

\* scrape_website failed and the GET answered with an empty body, which is returned
C16_Witness ==
    /\ entry = "scrape_with_fallback"
    /\ pc = "done"
    /\ outcome.kind = "raise"
    /\ httpGets = <<website>>
    /\ res = Returns(Str(<<>>))
    /\ result = Returns(Str(<<>>))

\* C17: in a call of scrape_with_fallback, once scrape_website has raised a
\* configuration error (credential missing or malformed) or a permanent auth
\* rejection, no fetch of any kind follows: no HTTP GET is issued and the call
\* ends by raising that error to its caller.
C17_FatalNotMasked ==
    ( /\ entry = "scrape_with_fallback"
      /\ outcome.kind = "raise"
      /\ outcome.exc.msg \in {"auth_missing", "auth_format", "auth_rejected"} )
    => /\ httpGets = <<>>
       /\ pc # "fallback"
       /\ pc = "done" => result = outcome

\* some element of the rendered page is m
Shows(m) == \E i \in 1..Len(ui) : ui[i] = m

\* C12: in the form, an error raised during the scrape action (configuration
\* error, auth rejection, exhausted retries, too-short markup, any other error of
\* the remote service) or during the parse action (model-call error) never
\* leaves the run of the script: the run ends normally with the inline error
\* message rendered, no traceback is ever shown, and after the run both buttons
\* that are on the page accept the next click.
C12_ErrorBoundary ==
    entry \in FormEntries =>
        /\ result.kind # "raise"
        /\ ~Shows("traceback")
        /\ pc = "done" =>
            /\ outcome.kind = "raise" => /\ Shows("error")
                                         /\ Shows("info")
                                         /\ result = Returns(None)
            /\ ENABLED ClickScrape
            /\ ~dom_content.isNone => ENABLED ClickParse

\* a scrape succeeded earlier, and the model call of a later parse action failed
C12_Witness ==
    /\ entry = "main_parse"
    /\ pc = "done"
    /\ dom_content = Str(<<"a">>)
    /\ failed = 1
    /\ outcome = Raises(Exc("Exception", FALSE, "model"))
    /\ ui = <<"parse_form", "parsing", "error", "info">>
    /\ result = Returns(None)

\* C18: the session's dom_content is absent until a scrape action succeeds; a
\* step changes it only when it is the end of a scrape action whose
\* scrape_website returned, and then to the cleaned text of the body of the
\* returned page; every other step (a failed scrape, a click with an empty URL,
\* every step of a parse action) leaves it unchanged.  The parse form is on the
\* page, and a parse action runs, only while dom_content is present, and a
\* parse action with an empty description sends no model request.
C18_SessionState ==
    /\ [][IF pc = "exit" /\ entry = "main" /\ outcome.kind = "return"
          THEN dom_content' = Str(clean_body_content(extract_body_content(html)))
          ELSE dom_content' = dom_content]_vars
    /\ [](/\ pc = "idle" => dom_content = None
          /\ (entry = "main" /\ pc = "done" /\ outcome.kind = "return") =>
                dom_content = Str(clean_body_content(extract_body_content(html)))
          /\ Shows("parse_form") => ~dom_content.isNone
          /\ (entry \in FormEntries /\ pc = "done") =>
                (Shows("parse_form") <=> ~dom_content.isNone)
          /\ entry = "main_parse" => ~dom_content.isNone
          /\ (entry = "main_parse" /\ parse_description = <<>>) =>
                /\ pc = "done"
                /\ requests = <<>>
                /\ Shows("warning_description"))

\* a scrape stored the text "a"; a later scrape failed and the text is still there
C18_Witness ==
    /\ entry = "main"
    /\ pc = "done"
    /\ outcome.kind = "raise"
    /\ Shows("error")
    /\ dom_content = Str(<<"a">>)
    /\ Shows("parse_form")

RECURSIVE Visible(_, _)
\* the characters of markup d that are not whitespace and stand outside every
\* script and style element, in the order of the markup; raw is the name of the
\* script or style element being read, "" outside
Visible(d, raw) ==
    IF d = <<>> THEN <<>>
    ELSE LET t == Head(d) IN
         IF raw # ""
         THEN Visible(Tail(d), IF t = EndTag(raw) THEN "" ELSE raw)
         ELSE IF t \in {"<script>", "<style>"} THEN Visible(Tail(d), TagName(t))
         ELSE IF t \in StartTags \cup EndTags \cup Whitespace THEN Visible(Tail(d), "")
         ELSE <<t>> \o Visible(Tail(d), "")

\* the characters of s that are not whitespace
Letters(s) == SelectSeq(s, LAMBDA c : c \notin Whitespace)

\* C13: clean_body_content returns a text for every input, the empty text for
\* an input BeautifulSoup cannot parse (None); every line of a non-empty result
\* is non-blank and neither starts nor ends with whitespace; and the
\* characters of the result are, in the order of the markup, exactly the
\* characters that stand outside script and style elements, so lines keep
\* their order and nothing from inside script or style appears.
C13_Cleaner ==
    entry = "clean_body_content" =>
        /\ ~cleaned.isNone
        /\ body_content.isNone => cleaned = Str(<<>>)
        /\ LET out == cleaned.str
               lines == SplitOn(out, "\n")
           IN /\ out # <<>> =>
                    \A i \in 1..Len(lines) :
                        /\ lines[i] # <<>>
                        /\ ~IsBlank(lines[i])
                        /\ lines[i][1] \notin Whitespace
                        /\ lines[i][Len(lines[i])] \notin Whitespace
              /\ \A i \in 1..Len(out) : out[i] \notin StartTags \cup EndTags
              /\ ~body_content.isNone => Letters(out) = Visible(body_content.str, "")

\* markup with a script element holding "a", followed by the text "b"
C13_Witness ==
    /\ entry = "clean_body_content"
    /\ pc = "done"
    /\ body_content = Str(<<"<script>", "a", "</script>", "b">>)
    /\ cleaned = Str(<<"b">>)

====
